---- MODULE Spec2Model ----
(***************************************************************************)
(* Model of the saltyboyC betting bot: the decision engine                 *)
(* (bot/src/betting_strategy.py) and the settlement path of the store      *)
(* (bot/src/database.py).                                                  *)
(*                                                                         *)
(* Reals are fixed-point integers: probabilities, feature values, weights  *)
(* and the linear score z are counted in units of 1/SCALE.  Ratings,       *)
(* streaks, balances and stakes are the integers the code stores.          *)
(***************************************************************************)
EXTENDS Integers, Sequences, FiniteSets, TLC

VARIABLES
    fighter,    \* the fighter table: name -> row, defined on the names that exist
    log,        \* the match table, in insertion order
    applied,    \* ids of matches whose two fighter updates were committed
    weights,    \* the coefficient set handed to BettingEngine (<<>> is None)
    now,        \* the clock, in hours
    bot,        \* the locals of the loop of BotProcess.run, and the bets posted
    fighters,   \* the module-level fighters of train_model.py (the script)
    ret         \* what the last operation returned, with the inputs it got

vars == <<fighter, log, applied, weights, now, bot, fighters, ret>>

---------------------------------------------------------------------------
(* Program constants *)

MAX_BET_CAP == 300000
X_TIER_CAP == 20000
EFFECTIVE_BALANCE_CAP == 5000000
MIN_MATCHES == 3
STALE_THRESHOLD_HOURS == 24
QUERY_LIMIT == 100
K_FACTOR == 32
ELO_DIVISOR == 400
STARTING_ELO == 1500

(* Fixed-point unit of the reals of the model: 1.0 is SCALE. *)
SCALE == 10 * 1000
HALF == SCALE \div 2
CONF_HI == (85 * SCALE) \div 100
CONF_LO == (15 * SCALE) \div 100

(* math.exp raises OverflowError for arguments above 709.7827 *)
EXP_OVERFLOW == 709 * SCALE + 7827

NoDate == 0 - 1

---------------------------------------------------------------------------
(* Arithmetic on fixed-point values, kept inside 32-bit integers *)

Abs(x) == IF x < 0 THEN -x ELSE x
Min(a, b) == IF a < b THEN a ELSE b
Max(a, b) == IF a > b THEN a ELSE b
Sign(x) == IF x < 0 THEN -1 ELSE 1

\* floor(a * b / c) for a, b >= 0 and c > 0, with (c - 1) * b below 2^31
MulDiv(a, b, c) == (a \div c) * b + ((a % c) * b) \div c

\* Python's int(a * b / c): the quotient truncated toward zero
TruncMulDiv(a, b, c) == Sign(a) * Sign(b) * MulDiv(Abs(a), Abs(b), c)

\* e^(-n) for a whole n >= 0, in units of 1/SCALE
ExpNegInt(n) ==
    CASE n = 0 -> 10000 [] n = 1 -> 3679 [] n = 2 -> 1353 [] n = 3 -> 498
      [] n = 4 -> 183 [] n = 5 -> 67 [] n = 6 -> 25 [] n = 7 -> 9
      [] n = 8 -> 3 [] n = 9 -> 1 [] OTHER -> 0

\* the Taylor series of e^(-f), 0 <= f < SCALE: term k is term k-1 times f / k
RECURSIVE ExpSeries(_, _, _)
ExpSeries(f, k, term) ==
    IF term = 0 \/ k > 12 THEN 0
    ELSE LET next == (term * f) \div (k * SCALE)
         IN  (IF k % 2 = 1 THEN -next ELSE next) + ExpSeries(f, k + 1, next)

ExpNegFrac(f) == SCALE + ExpSeries(f, 1, SCALE)

\* e^(-a) for a >= 0
ExpNeg(a) == (ExpNegInt(a \div SCALE) * ExpNegFrac(a % SCALE)) \div SCALE

\* 1 / (1 + e^(-z))
Logistic(z) ==
    LET x == ExpNeg(Abs(z))
        small == (x * SCALE) \div (SCALE + x)
    IN  IF z < 0 THEN small ELSE SCALE - small

---------------------------------------------------------------------------
(* The Elo update of the store: Database._calculate_elo *)

Pow10Quarter == <<10000, 17783, 31623, 56234>>
Pow10Fortieth ==
    <<10000, 10593, 11220, 11885, 12589, 13335, 14125, 14962, 15849, 16788>>
Pow10FourHundredth ==
    <<10000, 10058, 10116, 10174, 10233, 10292, 10351, 10411, 10471, 10532>>

RECURSIVE TenTo(_)
TenTo(q) == IF q = 0 THEN 1 ELSE 10 * TenTo(q - 1)

\* math.pow(10, d / 400) for d >= 0, in units of 1/SCALE
Pow10(d) ==
    LET q == Min(d \div ELO_DIVISOR, 4)
        r == d % ELO_DIVISOR
        a == Pow10Quarter[(r \div 100) + 1]
        b == Pow10Fortieth[((r % 100) \div 10) + 1]
        c == Pow10FourHundredth[(r % 10) + 1]
    IN  ((((a * b) \div SCALE) * c) \div SCALE) * TenTo(q)

\* es_a = tr_a / (tr_a + tr_b), in units of 1/SCALE
ExpectedScore(elo, opp_elo) ==
    LET d == opp_elo - elo
    IN  IF d >= 0 THEN (SCALE * SCALE) \div (SCALE + Pow10(d))
        ELSE SCALE - (SCALE * SCALE) \div (SCALE + Pow10(-d))

\* Python's int(): the value v / SCALE truncated toward zero
TruncToInt(v) == Sign(v) * (Abs(v) \div SCALE)

\* int(elo + (32 * (score - es_a)))
_calculate_elo(elo, opp_elo, won) ==
    LET es_a == ExpectedScore(elo, opp_elo)
        score == IF won THEN SCALE ELSE 0
    IN  TruncToInt(elo * SCALE + K_FACTOR * (score - es_a))

---------------------------------------------------------------------------
(* Rows of the two tables *)

Names == {"Ryu", "Ken", "Zed"}
Exists(name) == name \in DOMAIN fighter

FighterRow(tier, elo, tier_elo, best, streak, last) ==
    [tier |-> tier, prev_tier |-> tier, elo |-> elo, tier_elo |-> tier_elo,
     best_streak |-> best, current_streak |-> streak, last_match_date |-> last]

\* None, where the code holds an integer or a name
NoneInt == 0 - 999999
NoneName == "None"

MATCHMAKING == "matchmaking"
TOURNAMENT == "tournament"
EXHIBITION == "exhibition"
ACCEPTED_MATCH_FORMATS == {MATCHMAKING, TOURNAMENT}

\* a row of the match table (insert_obj of record_match)
MatchRow(id, r, b, w, fmt, tier, bet_red, bet_blue, streak_red, streak_blue, my_bet, my_wager, match_balance, date) ==
    [id |-> id, date |-> date, fighter_red |-> r, fighter_blue |-> b, winner |-> w,
     match_format |-> fmt, tier |-> tier, bet_red |-> bet_red,
     bet_blue |-> bet_blue, streak_red |-> streak_red,
     streak_blue |-> streak_blue, my_bet_on |-> my_bet, my_wager |-> my_wager,
     match_balance |-> match_balance]

\* a matchmaking row between r and b won by w, with no bet of the bot's
Row(id, r, b, w) ==
    MatchRow(id, r, b, w, MATCHMAKING, "A", 100, 200, 0, 0, NoneName, NoneInt,
             NoneInt, 0)

\* the locals of BotProcess.run before the first message, with no bet posted,
\* no message handled (events) and no "Brain updated!" logged (updates).
\* own_bet is a history of the loop, not a local of it: whether current_bet_color
\* and current_wager were decided for current_match.
START_BALANCE == 1000
NoMatch == [match_format |-> "none"]
NoInfo == [none |-> TRUE]
BotStart ==
    [logged_in |-> FALSE, current_balance |-> START_BALANCE,
     matches_tracked |-> 0, current_match |-> NoMatch,
     saved_match_info |-> NoInfo, current_bet_color |-> NoneName,
     current_wager |-> NoneInt, current_balance_snapshot |-> NoneInt,
     last_pool_red |-> 0, last_pool_blue |-> 0, placed |-> <<>>,
     events |-> 0, updates |-> 0, own_bet |-> FALSE]

---------------------------------------------------------------------------
(* BettingEngine: the feature extractor *)

DEFAULT_WEIGHTS ==
    [intercept |-> -200, tier_elo |-> 55, streak |-> 120, h2h |-> 15000,
     comp |-> 1600]

\* self.weights = weights if weights else {...}
EngineWeights(w) == IF DOMAIN w = {} THEN DEFAULT_WEIGHTS ELSE w

\* self.weights.get(key, 0.0)
WeightGet(w, key) == IF key \in DOMAIN w THEN w[key] ELSE 0

\* get_safe_streak with the streak already stale at the threshold itself
get_safe_streak_strict(f) ==
    IF f.current_streak = 0 THEN 0
    ELSE IF f.last_match_date = NoDate THEN 0
    ELSE IF now - f.last_match_date >= STALE_THRESHOLD_HOURS THEN 0
    ELSE f.current_streak

get_safe_streak(f) ==
    IF f.current_streak = 0 THEN 0
    ELSE IF f.last_match_date = NoDate THEN 0
    ELSE IF now - f.last_match_date > STALE_THRESHOLD_HOURS THEN 0
    ELSE f.current_streak

\* H2HRows with the second half of the WHERE clause left out
H2HRows_one_role(red_id, blue_id) ==
    LET Met(m) == m.fighter_red = red_id /\ m.fighter_blue = blue_id
    IN  SelectSeq(log, Met)

\* the rows of SELECT winner FROM match WHERE (red = r AND blue = b) OR ...
H2HRows(red_id, blue_id) ==
    LET Met(m) == \/ (m.fighter_red = red_id /\ m.fighter_blue = blue_id)
                  \/ (m.fighter_red = blue_id /\ m.fighter_blue = red_id)
    IN  SelectSeq(log, Met)

RECURSIVE CountWins(_, _)
CountWins(matches, id) ==
    IF matches = <<>> THEN 0
    ELSE (IF Head(matches).winner = id THEN 1 ELSE 0)
         + CountWins(Tail(matches), id)

h2h_from_rows(matches, red_id) ==
    IF Len(matches) < MIN_MATCHES THEN 0
    ELSE (CountWins(matches, red_id) * SCALE) \div Len(matches) - HALF

get_h2h_score(red_id, blue_id) == h2h_from_rows(H2HRows(red_id, blue_id), red_id)

\* the indices of the rows WHERE fighter_red = id OR fighter_blue = id
RowsOf(id) ==
    {i \in 1..Len(log) : log[i].fighter_red = id \/ log[i].fighter_blue = id}

\* the sets of k rows the LIMIT may leave out of `rows`
RECURSIVE Dropped(_, _)
Dropped(rows, k) ==
    IF k = 0 THEN {{}}
    ELSE {X \in {D \cup {i} : D \in Dropped(rows, k - 1), i \in rows} :
            Cardinality(X) = k}

\* ... LIMIT 100, with no ORDER BY: any QUERY_LIMIT of the rows, in any order
RowSets(id) ==
    LET rows == RowsOf(id)
        over == Max(Cardinality(rows) - QUERY_LIMIT, 0)
    IN  {rows \ D : D \in Dropped(rows, over)}

OppOf(i, self_id) ==
    IF log[i].fighter_red = self_id THEN log[i].fighter_blue
    ELSE log[i].fighter_red

ResOf(i, self_id) == IF log[i].winner = self_id THEN "win" ELSE "loss"

\* build_map: the last row of an opponent decides its entry, and the rows come
\* in no stated order, so every row of the opponent may be the deciding one
BuildMaps(S, self_id) ==
    LET opps == {OppOf(i, self_id) : i \in S}
    IN  {m \in [opps -> {"win", "loss"}] :
            \A o \in opps :
                \E i \in S : OppOf(i, self_id) = o /\ ResOf(i, self_id) = m[o]}

OppMaps(id) == UNION {BuildMaps(S, id) : S \in RowSets(id)}

\* the loop over red_opps.items(): <<common_wins, common_total>>
RECURSIVE CommonCount(_, _, _)
CommonCount(todo, red_opps, blue_opps) ==
    IF todo = {} THEN <<0, 0>>
    ELSE LET opp_id == CHOOSE o \in todo : TRUE
             rest == CommonCount(todo \ {opp_id}, red_opps, blue_opps)
         IN  IF opp_id \notin DOMAIN blue_opps THEN rest
             ELSE IF red_opps[opp_id] = "win" /\ blue_opps[opp_id] = "loss"
                  THEN <<rest[1] + 1, rest[2] + 1>>
             ELSE IF red_opps[opp_id] = "loss" /\ blue_opps[opp_id] = "win"
                  THEN <<rest[1], rest[2] + 1>>
             ELSE rest

\* comp_from_maps with the sample minimum off by one
comp_from_maps_off_by_one(red_opps, blue_opps) ==
    LET c == CommonCount(DOMAIN red_opps, red_opps, blue_opps)
    IN  IF c[2] <= MIN_MATCHES THEN 0
        ELSE (c[1] * SCALE) \div c[2] - HALF

comp_from_maps(red_opps, blue_opps) ==
    LET c == CommonCount(DOMAIN red_opps, red_opps, blue_opps)
    IN  IF c[2] < MIN_MATCHES THEN 0
        ELSE (c[1] * SCALE) \div c[2] - HALF

---------------------------------------------------------------------------
(* BettingEngine.get_bet: scoring and stake sizing *)

TIER_RANDOM == "P"
TIER_GIMMICK == "X"
TIER_DEFAULT == "U"

\* z = intercept + tier_elo * elo_diff + streak * streak_diff + h2h * h2h_val
\*     + comp * comp_val
\* linear_score reading its intercept from the defaults and the rest from w
linear_score_mixed(w, elo_diff, streak_diff, h2h_val, comp_val) ==
    DEFAULT_WEIGHTS.intercept
    + WeightGet(w, "tier_elo") * elo_diff
    + WeightGet(w, "streak") * streak_diff
    + TruncMulDiv(WeightGet(w, "h2h"), h2h_val, SCALE)
    + TruncMulDiv(WeightGet(w, "comp"), comp_val, SCALE)

linear_score(w, elo_diff, streak_diff, h2h_val, comp_val) ==
    WeightGet(w, "intercept")
    + WeightGet(w, "tier_elo") * elo_diff
    + WeightGet(w, "streak") * streak_diff
    + TruncMulDiv(WeightGet(w, "h2h"), h2h_val, SCALE)
    + TruncMulDiv(WeightGet(w, "comp"), comp_val, SCALE)

\* score_prob without the except clause: the OverflowError leaves get_bet
score_prob_unhandled(z) ==
    IF -z > EXP_OVERFLOW
    THEN [raised |-> TRUE, p |-> 0]
    ELSE [raised |-> FALSE, p |-> Logistic(z)]

\* try: prob_red = 1 / (1 + math.exp(-z))
\* except OverflowError: prob_red = 0.0 if z < 0 else 1.0
score_prob(z) ==
    IF -z > EXP_OVERFLOW
    THEN [raised |-> FALSE, p |-> IF z < 0 THEN 0 ELSE SCALE]
    ELSE [raised |-> FALSE, p |-> Logistic(z)]

\* if prob_red > 0.85: prob_red = 0.85;  if prob_red < 0.15: prob_red = 0.15
clamp_prob(p) ==
    LET hi == IF p > CONF_HI THEN CONF_HI ELSE p
    IN  IF hi < CONF_LO THEN CONF_LO ELSE hi

\* betting_balance with the wealth cap left out
betting_balance_uncapped(balance) == balance

\* betting_balance = min(balance, EFFECTIVE_BALANCE_CAP)
betting_balance(balance) == Min(balance, EFFECTIVE_BALANCE_CAP)

\* wager = int(betting_balance * 0.05 * strength), strength = (confidence - 0.5) * 2
raw_wager(balance, confidence) ==
    TruncMulDiv(betting_balance(balance), (confidence - HALF) * 2, 20 * SCALE)

\* x_tier_cap looking at the red corner only
x_tier_cap_red_only(wager, red_tier, blue_tier) ==
    IF red_tier = TIER_GIMMICK THEN Min(wager, X_TIER_CAP) ELSE wager

\* if red.tier == 'X' or blue.tier == 'X': wager = min(wager, X_TIER_CAP)
x_tier_cap(wager, red_tier, blue_tier) ==
    IF red_tier = TIER_GIMMICK \/ blue_tier = TIER_GIMMICK
    THEN Min(wager, X_TIER_CAP) ELSE wager

\* sanity_clamp without the floor of 1
sanity_clamp_no_floor(wager) == Min(wager, MAX_BET_CAP)

\* wager = min(max(1, wager), MAX_BET_CAP)
sanity_clamp(wager) == Min(Max(1, wager), MAX_BET_CAP)

\* if not red or not blue or red.tier == 'P' or blue.tier == 'P'
\* (db is the fighter table as the engine's session sees it)
tier_safety(db, red_name, blue_name) ==
    \/ red_name \notin DOMAIN db
    \/ blue_name \notin DOMAIN db
    \/ db[red_name].tier = TIER_RANDOM
    \/ db[blue_name].tier = TIER_RANDOM

\* get_bet, given the opponent maps its two LIMIT queries produced.  The result
\* holds the returned triple (wager, color, confidence) and, beside it, what the
\* call computed on the way: z, the clamped prob_red, whether the exponential
\* overflowed, whether the features were evaluated, whether the call raised.
get_bet(db, red_name, blue_name, balance, red_opps, blue_opps) ==
    IF tier_safety(db, red_name, blue_name)
    THEN [wager |-> 1, color |-> "red", confidence |-> HALF, raised |-> FALSE,
          evaluated |-> FALSE, z |-> 0, overflow |-> FALSE, prob_red |-> HALF]
    ELSE
    LET red == db[red_name]
        blue == db[blue_name]
        streak_diff == get_safe_streak(red) - get_safe_streak(blue)
        elo_diff == red.tier_elo - blue.tier_elo
        h2h_val == get_h2h_score(red_name, blue_name)
        comp_val == comp_from_maps(red_opps, blue_opps)
        z == linear_score(EngineWeights(weights), elo_diff, streak_diff,
                          h2h_val, comp_val)
        sp == score_prob(z)
        prob_red == clamp_prob(sp.p)
        color == IF prob_red > HALF THEN "red" ELSE "blue"
        confidence == IF prob_red > HALF THEN prob_red ELSE SCALE - prob_red
        wager == sanity_clamp(x_tier_cap(raw_wager(balance, confidence),
                                         red.tier, blue.tier))
    IN  IF sp.raised
        THEN [wager |-> 0, color |-> "none", confidence |-> 0, raised |-> TRUE,
              evaluated |-> TRUE, z |-> z, overflow |-> TRUE, prob_red |-> 0]
        ELSE [wager |-> wager, color |-> color, confidence |-> confidence,
              raised |-> FALSE, evaluated |-> TRUE, z |-> z,
              overflow |-> (-z > EXP_OVERFLOW), prob_red |-> prob_red]

---------------------------------------------------------------------------
(* SpecBet: get_bet applied to bounded stores, logs, coefficient sets and   *)
(* balances                                                                 *)

MaxStreak == 3
EloSpread == 100
StartHour == 4 * STALE_THRESHOLD_HOURS

BetTiers == {"A", TIER_RANDOM, TIER_GIMMICK, TIER_DEFAULT}
BetBalances == {-1000, 0, 1, 1000, 600000, EFFECTIVE_BALANCE_CAP, 30000000}

\* <<current_streak, last_match_date>>: no match yet, a fresh streak, a stale one
Recency(streak) ==
    {<<0, NoDate>>, <<streak, StartHour - 1>>,
     <<streak, StartHour - 2 * STALE_THRESHOLD_HOURS>>}

BetStores ==
    {[Ryu |-> FighterRow(t1, STARTING_ELO, e1, MaxStreak, s1[1], s1[2]),
      Ken |-> FighterRow(t2, STARTING_ELO, STARTING_ELO, MaxStreak, s2[1], s2[2])] :
        t1 \in BetTiers, t2 \in BetTiers,
        e1 \in {STARTING_ELO - EloSpread, STARTING_ELO, STARTING_ELO + EloSpread},
        s1 \in Recency(MaxStreak),
        s2 \in {<<0, NoDate>>, <<1 - MaxStreak, StartHour - 1>>}}

H2HLog ==
    <<Row(1, "Ryu", "Ken", "Ryu"), Row(2, "Ken", "Ryu", "Ryu"),
      Row(3, "Ryu", "Ken", "Ken")>>

TriangleLog ==
    <<Row(1, "Ryu", "Opp1", "Ryu"), Row(2, "Opp1", "Ken", "Opp1"),
      Row(3, "Opp2", "Ryu", "Ryu"), Row(4, "Ken", "Opp2", "Opp2"),
      Row(5, "Ryu", "Opp3", "Ryu"), Row(6, "Opp3", "Ken", "Opp3")>>

BetLogs == {<<>>, H2HLog, TriangleLog}

\* None (the defaults), a set fitted before the streak feature existed, a set
\* whose score overflows the exponential, and the all-zero set
BetWeights ==
    {<<>>,
     [intercept |-> 100, tier_elo |-> 40, h2h |-> 10000, comp |-> 20000],
     [intercept |-> 0, tier_elo |-> 8 * SCALE, streak |-> 0, h2h |-> 0,
      comp |-> 0],
     [intercept |-> 0, tier_elo |-> 0, streak |-> 0, h2h |-> 0, comp |-> 0]}

InitBet ==
    /\ fighter \in BetStores
    /\ log \in BetLogs
    /\ applied = {}
    /\ weights \in BetWeights
    /\ now = StartHour
    /\ bot = BotStart
    /\ fighters = <<>>
    /\ ret = [op |-> "init"]

\* Decide, had get_safe_streak reset a stale streak in the store as it read it
Decide_expiring ==
    \E red_name \in Names, blue_name \in Names, balance \in BetBalances :
        /\ ret.op = "init"
        /\ red_name # blue_name
        /\ \E red_opps \in OppMaps(red_name), blue_opps \in OppMaps(blue_name) :
              ret' = [op |-> "get_bet", red |-> red_name, blue |-> blue_name,
                      balance |-> balance,
                      out |-> get_bet(fighter, red_name, blue_name, balance,
                                      red_opps, blue_opps)]
        /\ fighter' = [n \in DOMAIN fighter |->
                         [fighter[n] EXCEPT
                            !.current_streak = get_safe_streak(fighter[n])]]
        /\ UNCHANGED <<log, applied, weights, now, bot, fighters>>

\* get_bet reads the store and writes nothing: one call per drawn input shows
\* all it can return
Decide ==
    \E red_name \in Names, blue_name \in Names, balance \in BetBalances :
        /\ ret.op = "init"
        /\ red_name # blue_name
        /\ \E red_opps \in OppMaps(red_name), blue_opps \in OppMaps(blue_name) :
              ret' = [op |-> "get_bet", red |-> red_name, blue |-> blue_name,
                      balance |-> balance,
                      out |-> get_bet(fighter, red_name, blue_name, balance,
                                      red_opps, blue_opps)]
        /\ UNCHANGED <<fighter, log, applied, weights, now, bot, fighters>>

NextBet == Decide

SpecBet == InitBet /\ [][NextBet]_vars

Decided == ret.op = "get_bet"
TierOf(name) == IF Exists(name) THEN fighter[name].tier ELSE "missing"

\* C1: for every pair of fighters, coefficient set and balance (0 and negative
\* balances too), get_bet returns a stake with 1 <= stake <= MAX_BET_CAP.
C1_StakeInRange ==
    Decided => ret.out.wager \in 1..MAX_BET_CAP

\* C1 witness: a scored decision on a balance of 0 or less, floored to 1.
C1_Witness ==
    Decided /\ ret.out.evaluated /\ ret.balance <= 0 /\ ret.out.wager = 1
    /\ ret.out.confidence > HALF

\* C2: whenever either fighter is in the gimmick tier 'X', the stake is in
\* [1, X_TIER_CAP].
C2_GimmickCap ==
    (Decided /\ (TierOf(ret.red) = TIER_GIMMICK \/ TierOf(ret.blue) = TIER_GIMMICK))
        => ret.out.wager \in 1..X_TIER_CAP

\* C2 witness: blue alone is gimmick-tier and the cap is what decided the stake.
C2_Witness ==
    /\ Decided /\ ret.out.evaluated
    /\ TierOf(ret.blue) = TIER_GIMMICK /\ TierOf(ret.red) # TIER_GIMMICK
    /\ raw_wager(ret.balance, ret.out.confidence) > X_TIER_CAP
    /\ ret.out.wager = X_TIER_CAP

\* 0.05 x min(balance, EFFECTIVE_BALANCE_CAP) x 0.7, in thousandths of a unit
StakeBound1000(balance) == 35 * Min(balance, EFFECTIVE_BALANCE_CAP)

\* C3 as stated: the stake never exceeds 0.05 x min(balance, cap) x 0.7, within
\* rounding (one unit of stake is allowed for it).
C3_Original ==
    Decided => ret.out.wager * 1000 <= StakeBound1000(ret.balance) + 1000

\* C3 as amended: the stake never exceeds max(1, floor(0.05 x min(balance, cap)
\* x 0.7)); the bound gives way only to the minimum stake of 1.
C3_StakeBound ==
    Decided =>
        \/ ret.out.wager = 1
        \/ ret.out.wager * 1000 <= StakeBound1000(ret.balance)

\* C3 witness: a balance above the wealth cap, at full confidence, staked at
\* exactly 0.05 x cap x 0.7.
C3_Witness ==
    /\ Decided /\ ret.balance > EFFECTIVE_BALANCE_CAP
    /\ ret.out.confidence = CONF_HI
    /\ ret.out.wager * 1000 = StakeBound1000(ret.balance)

\* C4: for every linear score z, overflowing or not, get_bet does not fail, the
\* red probability it uses lies in [0.15, 0.85], and the confidence it returns
\* is max(p, 1 - p) and lies in [0.5, 0.85].
C4_ClampedConfidence ==
    (Decided /\ ret.out.evaluated) =>
        /\ ~ret.out.raised
        /\ ret.out.prob_red >= CONF_LO /\ ret.out.prob_red <= CONF_HI
        /\ ret.out.confidence = Max(ret.out.prob_red, SCALE - ret.out.prob_red)
        /\ ret.out.confidence >= HALF /\ ret.out.confidence <= CONF_HI

\* C4 witness: a score whose exponential overflows, decided at p = 0.15.
C4_Witness ==
    /\ Decided /\ ret.out.evaluated /\ ret.out.overflow
    /\ ret.out.prob_red = CONF_LO /\ ret.out.confidence = CONF_HI
    /\ ret.out.color = "blue"

\* C12: a decision (get_bet and the four feature computations) leaves every
\* fighter record and the match log unchanged.
C12_DecisionReadsOnly ==
    [][ret'.op = "get_bet" => (fighter' = fighter /\ log' = log)]_vars

\* C12 witness: a decision that evaluated its features on a log with rows and
\* on a stale stored streak, which is still stored.
C12_Witness ==
    /\ Decided /\ ret.out.evaluated /\ Len(log) > 0
    /\ fighter[ret.red].current_streak # 0
    /\ get_safe_streak(fighter[ret.red]) = 0

\* the tiers of a fighter that carries no rating of its own: the random tier
\* 'P', and 'U', the tier given to a fighter imported without one
UnratedTiers == {TIER_RANDOM, TIER_DEFAULT}

\* C5: whenever either fighter is in the unrated/random tier, or either fighter
\* record is missing, get_bet returns stake 1 and confidence 0.5 and evaluates
\* no feature.
C5_UnratedMinimal ==
    (Decided /\ (\/ ~Exists(ret.red) \/ ~Exists(ret.blue)
                 \/ TierOf(ret.red) \in UnratedTiers
                 \/ TierOf(ret.blue) \in UnratedTiers))
        => (ret.out.wager = 1 /\ ret.out.confidence = HALF /\ ~ret.out.evaluated)

---------------------------------------------------------------------------
(* Database.record_match: the settlement of one match *)

\* _create_fighter: INSERT INTO fighter (...) VALUES (..., 1500, 1500, 0)
_create_fighter(tier, best_streak) ==
    FighterRow(tier, STARTING_ELO, STARTING_ELO, best_streak, 0, NoDate)

\* new_streak_of forgetting the run so far
new_streak_of_flat(old_streak, won) == IF won THEN 1 ELSE -1

new_streak_of(old_streak, won) ==
    IF won THEN (IF old_streak > 0 THEN old_streak + 1 ELSE 1)
    ELSE (IF old_streak < 0 THEN old_streak - 1 ELSE -1)

\* _update_fighter: the row the UPDATE writes for `f`
_update_fighter(f, tier, best_streak, opp_elo, opp_tier_elo, won) ==
    LET prev_tier == f.tier
        tier_elo == IF tier = prev_tier THEN f.tier_elo ELSE STARTING_ELO
        new_streak == new_streak_of(f.current_streak, won)
        updated_streak == Max(Max(best_streak, f.best_streak), new_streak)
    IN  [tier |-> tier, prev_tier |-> prev_tier,
         elo |-> _calculate_elo(f.elo, opp_elo, won),
         tier_elo |-> _calculate_elo(tier_elo, opp_tier_elo, won),
         best_streak |-> updated_streak, current_streak |-> new_streak,
         last_match_date |-> now]

\* the fighter table after _get_or_create_fighter(name, tier, best_streak)
WithFighter(store, name, tier, best_streak) ==
    IF name \in DOMAIN store THEN store
    ELSE [n \in DOMAIN store \cup {name} |->
            IF n = name THEN _create_fighter(tier, best_streak) ELSE store[n]]

\* generate_safe_id: the clock in microseconds, above every id in the table
NextMatchId ==
    LET ids == {log[i].id : i \in 1..Len(log)} \cup {0}
    IN  1 + CHOOSE top \in ids : \A id \in ids : id <= top

\* The store operations of record_match that can fail, in the order they run.
\* "none": nothing fails.
FailPoints ==
    {"none", "create", "insert", "update_red", "update_blue", "commit"}

Outcome(store, matches, done, raised, appended, updated) ==
    [fighter |-> store, log |-> matches, applied |-> done, raised |-> raised,
     appended |-> appended, updated |-> updated]

\* record_match(match, my_bet, my_wager, match_balance) when the store operation
\* `fail` fails: the tables it leaves and how it returns
record_match(match, my_bet, my_wager, match_balance, fail) ==
    LET unchanged == Outcome(fighter, log, applied, FALSE, FALSE, FALSE)
        red_name == match.fighter_red_name
        blue_name == match.fighter_blue_name
        must_create == ~Exists(red_name) \/ ~Exists(blue_name)
        created == WithFighter(
                       WithFighter(fighter, red_name, match.tier, match.streak_red),
                       blue_name, match.tier, match.streak_blue)
        fighter_red == created[red_name]
        fighter_blue == created[blue_name]
        red_won == match.winner = red_name
        row == MatchRow(NextMatchId, red_name, blue_name, match.winner,
                        match.match_format, match.tier, match.bet_red,
                        match.bet_blue, match.streak_red, match.streak_blue,
                        my_bet, my_wager, match_balance, now)
        inserted == Append(log, row)
        updated == [created EXCEPT
            ![red_name] = _update_fighter(fighter_red, match.tier,
                              match.streak_red, fighter_blue.elo,
                              fighter_blue.tier_elo, red_won),
            ![blue_name] = _update_fighter(fighter_blue, match.tier,
                              match.streak_blue, fighter_red.elo,
                              fighter_red.tier_elo, ~red_won)]
    IN  IF match.match_format \notin ACCEPTED_MATCH_FORMATS THEN unchanged
        ELSE IF match.streak_red = NoneInt \/ match.streak_blue = NoneInt
        THEN unchanged
        \* _create_fighter rolls back and re-raises
        ELSE IF must_create /\ fail = "create"
        THEN Outcome(fighter, log, applied, TRUE, FALSE, FALSE)
        ELSE IF \/ match.bet_blue = NoneInt \/ match.bet_red = NoneInt
                \/ match.winner = NoneName
        THEN Outcome(created, log, applied, FALSE, FALSE, FALSE)
        ELSE IF match.winner # red_name /\ match.winner # blue_name
        THEN Outcome(created, log, applied, FALSE, FALSE, FALSE)
        \* the INSERT fails: rollback, raise
        ELSE IF fail = "insert"
        THEN Outcome(created, log, applied, TRUE, FALSE, FALSE)
        \* the INSERT is committed; an UPDATE or the last commit fails: the
        \* rollback undoes the UPDATEs only
        ELSE IF fail \in {"update_red", "update_blue", "commit"}
        THEN Outcome(created, inserted, applied, TRUE, TRUE, FALSE)
        ELSE Outcome(updated, inserted, applied \cup {row.id}, FALSE, TRUE, TRUE)

---------------------------------------------------------------------------
(* Spec: settlements on a small store *)

MaxMatches == 2

MatchIn(fmt, r, b, tier, streak_red, streak_blue, bet_red, bet_blue, w) ==
    [match_format |-> fmt, fighter_red_name |-> r, fighter_blue_name |-> b,
     tier |-> tier, streak_red |-> streak_red, streak_blue |-> streak_blue,
     bet_red |-> bet_red, bet_blue |-> bet_blue, winner |-> w]

Pairs == {<<"Ryu", "Ken">>, <<"Ken", "Ryu">>, <<"Ryu", "Zed">>}

\* matches record_match settles: matchmaking in the stored tier, and one
\* tournament pairing in another tier with streaks supplied
EligibleMatches ==
    {MatchIn(MATCHMAKING, p[1], p[2], "A", 0, 0, 100, 200, p[i]) :
        p \in Pairs, i \in 1..2}
    \cup {MatchIn(TOURNAMENT, "Ryu", "Ken", "B", MaxStreak + 1, 1, 100, 200, w) :
        w \in {"Ryu", "Ken"}}

\* matches record_match skips: each lacks one thing
SkippedMatches ==
    {MatchIn(EXHIBITION, "Ryu", "Zed", "A", 0, 0, 100, 200, "Ryu"),
     MatchIn(MATCHMAKING, "Ryu", "Zed", "A", NoneInt, 0, 100, 200, "Ryu"),
     MatchIn(MATCHMAKING, "Ryu", "Zed", "A", 0, 0, NoneInt, 200, "Ryu"),
     MatchIn(MATCHMAKING, "Ryu", "Zed", "A", 0, 0, 100, NoneInt, "Zed"),
     MatchIn(MATCHMAKING, "Ryu", "Zed", "A", 0, 0, 100, 200, NoneName),
     MatchIn(MATCHMAKING, "Ryu", "Zed", "A", 0, 0, 100, 200, "Akuma")}

MatchInputs == EligibleMatches \cup SkippedMatches

SettleStores ==
    {[Ryu |-> FighterRow("A", e, e, 0, 0, NoDate),
      Ken |-> FighterRow("A", STARTING_ELO, STARTING_ELO, 0, 0, NoDate)] :
        e \in {STARTING_ELO, STARTING_ELO + EloSpread}}

Init ==
    /\ fighter \in SettleStores
    /\ log = <<>>
    /\ applied = {}
    /\ weights = <<>>
    /\ now = StartHour
    /\ bot = BotStart
    /\ fighters = <<>>
    /\ ret = [op |-> "init"]

RecordMatch ==
    \E match \in MatchInputs, fail \in FailPoints :
        /\ Len(log) < MaxMatches
        /\ LET out == record_match(match, NoneName, NoneInt, NoneInt, fail)
           IN  /\ fighter' = out.fighter
               /\ log' = out.log
               /\ applied' = out.applied
               /\ ret' = [op |-> "record_match", match |-> match,
                          store_failed |-> (fail # "none"),
                          raised |-> out.raised, appended |-> out.appended,
                          updated |-> out.updated]
        /\ UNCHANGED <<weights, now, bot, fighters>>

Next == RecordMatch

Spec == Init /\ [][Next]_vars

Settled == ret.op = "record_match"

\* the match of the step just taken is one record_match skips
Skipped(match) ==
    \/ match.match_format \notin ACCEPTED_MATCH_FORMATS
    \/ match.winner = NoneName
    \/ match.bet_red = NoneInt \/ match.bet_blue = NoneInt
    \/ match.winner \notin {match.fighter_red_name, match.fighter_blue_name}

\* C6: rating update is zero-sum on a fixed pair absent tier change: the change
\* record_match applies to the winner's rating is the negative of the change it
\* applies to the loser's, for the global and for the tier-scoped rating.
C6_ZeroSum ==
    [][(/\ ret'.op = "record_match" /\ ret'.updated
        /\ Exists(ret'.match.fighter_red_name)
        /\ Exists(ret'.match.fighter_blue_name)
        /\ fighter[ret'.match.fighter_red_name].tier = ret'.match.tier
        /\ fighter[ret'.match.fighter_blue_name].tier = ret'.match.tier)
       => LET r == ret'.match.fighter_red_name
              b == ret'.match.fighter_blue_name
          IN  /\ fighter'[r].elo - fighter[r].elo
                   = -(fighter'[b].elo - fighter[b].elo)
              /\ fighter'[r].tier_elo - fighter[r].tier_elo
                   = -(fighter'[b].tier_elo - fighter[b].tier_elo)]_vars

\* C7: settlement is all-or-nothing: a failed store operation is raised and
\* leaves the match not appended and no fighter updated, so a match is in the
\* log iff its two fighter updates were applied.
C7_AllOrNothing ==
    /\ \A i \in 1..Len(log) : log[i].id \in applied
    /\ \A id \in applied : \E i \in 1..Len(log) : log[i].id = id
    /\ (Settled /\ ret.raised) => (~ret.appended /\ ~ret.updated)

\* C8: a match of an ineligible format, or without a winner or a pool total, or
\* won by neither participant, is not processed at all: the log and every
\* fighter row (the set of fighters too) are unchanged and nothing is raised.
C8_SkippedUntouched ==
    [][(/\ ret'.op = "record_match" /\ ~ret'.store_failed
        /\ Skipped(ret'.match))
       => (fighter' = fighter /\ log' = log /\ ~ret'.raised)]_vars

\* the tier rating a stored fighter enters a match of tier `tier` with
TierRatingAt(name, tier) ==
    IF fighter[name].tier = tier THEN fighter[name].tier_elo ELSE STARTING_ELO

\* C22: when a fighter's tier at the settled match differs from its stored
\* tier, its tier rating is reset to 1500 before the update: 1500 is the value
\* used for it in the paired tier-scoped update, in its own new rating and in
\* its opponent's expected score.
C22_TierReset ==
    [][(/\ ret'.op = "record_match" /\ ret'.updated
        /\ Exists(ret'.match.fighter_red_name)
        /\ Exists(ret'.match.fighter_blue_name))
       => LET m == ret'.match
              r == m.fighter_red_name
              b == m.fighter_blue_name
              red_won == m.winner = r
          IN  /\ fighter'[r].tier_elo
                   = _calculate_elo(TierRatingAt(r, m.tier),
                                    TierRatingAt(b, m.tier), red_won)
              /\ fighter'[b].tier_elo
                   = _calculate_elo(TierRatingAt(b, m.tier),
                                    TierRatingAt(r, m.tier), ~red_won)]_vars

\* the high-water mark a participant had before the step: the stored one, or
\* the supplied one a fighter is created with
BestBefore(name, supplied) ==
    IF Exists(name) THEN fighter[name].best_streak ELSE supplied

\* C20: after each settled match the best-streak high-water mark of each
\* participant is max(previous high-water mark, supplied best-streak-so-far,
\* magnitude of the new streak), so a long losing run raises it.
C20_BestStreakMagnitude ==
    [][(ret'.op = "record_match" /\ ret'.updated)
       => LET m == ret'.match
              Mark(name, supplied) ==
                  fighter'[name].best_streak =
                      Max(Max(BestBefore(name, supplied), supplied),
                          Abs(fighter'[name].current_streak))
          IN  /\ Mark(m.fighter_red_name, m.streak_red)
              /\ Mark(m.fighter_blue_name, m.streak_blue)]_vars

---------------------------------------------------------------------------
(* SpecFeat: the two log features on bounded match logs.  Fighters are the  *)
(* ids of the match table: 1 and 2 are the pair asked about, 2 + k is their *)
(* k-th possible common opponent.                                           *)

MaxMeetings == 4
MaxOpponents == 4

Opp(k) == 2 + k

\* the rows in the order given, numbered as inserted
Numbered(rows) == [i \in 1..Len(rows) |-> [rows[i] EXCEPT !.id = i]]

\* every log of at most n meetings of 1 and 2, in either role, won by either
RECURSIVE MeetingLogs(_)
MeetingLogs(n) ==
    IF n = 0 THEN {<<>>}
    ELSE LET shorter == MeetingLogs(n - 1)
         IN  shorter \cup
             {Append(l, Row(0, p[1], p[2], w)) :
                 l \in {x \in shorter : Len(x) = n - 1},
                 p \in {<<1, 2>>, <<2, 1>>}, w \in {1, 2}}

\* fighter 1 against opponent o: not met, won as red, lost as blue
RedSlot(o) == {<<>>, <<Row(0, 1, o, 1)>>, <<Row(0, o, 1, o)>>}
\* fighter 2 against opponent o: not met, lost as red, won as blue
BlueSlot(o) == {<<>>, <<Row(0, 2, o, o)>>, <<Row(0, o, 2, 2)>>}
\* a later meeting of fighter 1 and its first opponent, with the other result
Rematch == {<<>>, <<Row(0, 1, Opp(1), Opp(1))>>, <<Row(0, Opp(1), 1, 1)>>}

\* every log over the first k opponents
RECURSIVE OpponentLogs(_)
OpponentLogs(k) ==
    IF k = 0 THEN {<<>>}
    ELSE {l \o a \o b :
            l \in OpponentLogs(k - 1), a \in RedSlot(Opp(k)),
            b \in BlueSlot(Opp(k))}

FeatLogs ==
    {Numbered(l) : l \in MeetingLogs(MaxMeetings)}
    \cup {Numbered(l \o r) : l \in OpponentLogs(MaxOpponents), r \in Rematch}

InitFeat ==
    /\ fighter = <<>>
    /\ log \in FeatLogs
    /\ applied = {}
    /\ weights = <<>>
    /\ now = StartHour
    /\ bot = BotStart
    /\ fighters = <<>>
    /\ ret = [op |-> "init"]

H2HScore ==
    \E red_id \in {1, 2}, blue_id \in {1, 2} :
        /\ ret.op = "init"
        /\ red_id # blue_id
        /\ ret' = [op |-> "get_h2h_score", red |-> red_id, blue |-> blue_id,
                   score |-> get_h2h_score(red_id, blue_id)]
        /\ UNCHANGED <<fighter, log, applied, weights, now, bot, fighters>>

CompScore ==
    \E red_id \in {1, 2}, blue_id \in {1, 2} :
        /\ ret.op = "init"
        /\ red_id # blue_id
        /\ \E red_opps \in OppMaps(red_id), blue_opps \in OppMaps(blue_id) :
              ret' = [op |-> "get_comp_score", red |-> red_id, blue |-> blue_id,
                      red_opps |-> red_opps, blue_opps |-> blue_opps,
                      score |-> comp_from_maps(red_opps, blue_opps)]
        /\ UNCHANGED <<fighter, log, applied, weights, now, bot, fighters>>

NextFeat == H2HScore \/ CompScore

SpecFeat == InitFeat /\ [][NextFeat]_vars

\* s is the fixed-point value of num / den - 0.5
IsCentredFraction(s, num, den) ==
    /\ den * (s + HALF) <= num * SCALE
    /\ num * SCALE < den * (s + HALF + 1)

\* the meetings of a and b in the log, in either role
Meetings(a, b) ==
    {i \in 1..Len(log) : {log[i].fighter_red, log[i].fighter_blue} = {a, b}}

\* C9: get_h2h_score returns exactly 0.0 when the two fighters met fewer than 3
\* times (in either role), and otherwise (red wins / meetings) - 0.5, a value
\* in [-0.5, 0.5].
C9_HeadToHead ==
    ret.op = "get_h2h_score" =>
        LET n == Cardinality(Meetings(ret.red, ret.blue))
            wins == Cardinality({i \in Meetings(ret.red, ret.blue) :
                                    log[i].winner = ret.red})
        IN  /\ n < 3 => ret.score = 0
            /\ n >= 3 => IsCentredFraction(ret.score, wins, n)
            /\ ret.score >= -HALF /\ ret.score <= HALF

\* C9 witness: three meetings, in both roles, two of them won by red.
C9_Witness ==
    /\ ret.op = "get_h2h_score"
    /\ Cardinality(Meetings(ret.red, ret.blue)) = 3
    /\ \E i, j \in Meetings(ret.red, ret.blue) :
          log[i].fighter_red = ret.red /\ log[j].fighter_red = ret.blue
    /\ ret.score > 0 /\ ret.score < HALF

\* the common opponents of the two maps that count: as a win, and at all
CommonWins(red_opps, blue_opps) ==
    {o \in DOMAIN red_opps \cap DOMAIN blue_opps :
        red_opps[o] = "win" /\ blue_opps[o] = "loss"}
CommonLosses(red_opps, blue_opps) ==
    {o \in DOMAIN red_opps \cap DOMAIN blue_opps :
        red_opps[o] = "loss" /\ blue_opps[o] = "win"}

\* C10: over the opponents present in both opponent maps, get_comp_score counts
\* a common win and a common total when red beat the opponent and blue lost to
\* it, and only a common total when red lost and blue won; it returns exactly
\* 0.0 when common_total < 3 and otherwise common_wins / common_total - 0.5, a
\* value in [-0.5, 0.5].
C10_CommonOpponents ==
    ret.op = "get_comp_score" =>
        LET wins == Cardinality(CommonWins(ret.red_opps, ret.blue_opps))
            total == wins + Cardinality(CommonLosses(ret.red_opps, ret.blue_opps))
        IN  /\ total < 3 => ret.score = 0
            /\ total >= 3 => IsCentredFraction(ret.score, wins, total)
            /\ ret.score >= -HALF /\ ret.score <= HALF

\* C10 witness: three counted opponents, two of them common wins, beside a
\* common opponent that both fighters beat and that is not counted.
C10_Witness ==
    /\ ret.op = "get_comp_score"
    /\ Cardinality(CommonWins(ret.red_opps, ret.blue_opps)) = 2
    /\ Cardinality(CommonLosses(ret.red_opps, ret.blue_opps)) = 1
    /\ \E o \in DOMAIN ret.red_opps \cap DOMAIN ret.blue_opps :
          ret.red_opps[o] = "win" /\ ret.blue_opps[o] = "win"
    /\ ret.score > 0 /\ ret.score < HALF

---------------------------------------------------------------------------
(* SpecRepeat: the two log features called again and again on one log *)

MaxCalls == 2

\* fighter 1 beat three opponents that each beat fighter 2, and has so many
\* wins over one more opponent that its rows are one more than the LIMIT
LongLog ==
    Numbered(
        [k \in 1..3 |-> Row(0, 1, Opp(k), 1)]
        \o [k \in 1..3 |-> Row(0, Opp(k), 2, Opp(k))]
        \o [k \in 1..(QUERY_LIMIT - 2) |-> Row(0, 1, Opp(MaxOpponents + 1), 1)])

RepeatLogs ==
    {Numbered(l) : l \in MeetingLogs(MaxMeetings)}
    \cup {Numbered(l \o r) : l \in OpponentLogs(MaxOpponents - 1), r \in Rematch}
    \cup {LongLog}

InitRepeat ==
    /\ fighter = <<>>
    /\ log \in RepeatLogs
    /\ applied = {}
    /\ weights = <<>>
    /\ now = StartHour
    /\ bot = BotStart
    /\ fighters = <<>>
    /\ ret = [op |-> "init"]

\* the call is the first on this log, or one more of the same call
MayCall(fn, red_id, blue_id) ==
    \/ ret.op = "init"
    \/ /\ ret.op = "repeat" /\ ret.fn = fn
       /\ ret.red = red_id /\ ret.blue = blue_id
       /\ Len(ret.scores) < MaxCalls

Called(fn, red_id, blue_id, score) ==
    [op |-> "repeat", fn |-> fn, red |-> red_id, blue |-> blue_id,
     scores |-> Append(IF ret.op = "init" THEN <<>> ELSE ret.scores, score)]

RepeatH2H ==
    \E red_id \in {1, 2}, blue_id \in {1, 2} :
        /\ red_id # blue_id
        /\ MayCall("get_h2h_score", red_id, blue_id)
        /\ ret' = Called("get_h2h_score", red_id, blue_id,
                         get_h2h_score(red_id, blue_id))
        /\ UNCHANGED <<fighter, log, applied, weights, now, bot, fighters>>

RepeatComp ==
    \E red_id \in {1, 2}, blue_id \in {1, 2} :
        /\ red_id # blue_id
        /\ MayCall("get_comp_score", red_id, blue_id)
        /\ \E red_opps \in OppMaps(red_id), blue_opps \in OppMaps(blue_id) :
              ret' = Called("get_comp_score", red_id, blue_id,
                            comp_from_maps(red_opps, blue_opps))
        /\ UNCHANGED <<fighter, log, applied, weights, now, bot, fighters>>

NextRepeat == RepeatH2H \/ RepeatComp

SpecRepeat == InitRepeat /\ [][NextRepeat]_vars

\* C11: on a fixed match log, repeated calls of get_h2h_score and of
\* get_comp_score for the same pair return identical values, for fighters with
\* more rows than the query's LIMIT too.
C11_Idempotent ==
    ret.op = "repeat" =>
        \A i, j \in DOMAIN ret.scores : ret.scores[i] = ret.scores[j]

\* get_comp_score(red_id, blue_id) and then get_comp_score(blue_id, red_id) on
\* one log; each call runs its own two queries
SwapComp ==
    \E red_id \in {1, 2}, blue_id \in {1, 2} :
        /\ ret.op = "init"
        /\ red_id # blue_id
        /\ \E red_opps \in OppMaps(red_id), blue_opps \in OppMaps(blue_id) :
           \E swapped_red \in OppMaps(blue_id), swapped_blue \in OppMaps(red_id) :
              ret' = [op |-> "swap", red |-> red_id, blue |-> blue_id,
                      total |-> CommonCount(DOMAIN red_opps, red_opps,
                                            blue_opps)[2],
                      score |-> comp_from_maps(red_opps, blue_opps),
                      swapped |-> comp_from_maps(swapped_red, swapped_blue)]
        /\ UNCHANGED <<fighter, log, applied, weights, now, bot, fighters>>

SpecSwap == InitRepeat /\ [][SwapComp]_vars

\* C30: the common-opponent feature is antisymmetric under swapping roles: on a
\* fixed log whose winners are participants, get_comp_score(red, blue) =
\* -get_comp_score(blue, red) when the common total is at least 3 (up to the
\* last digit of the division), and both are 0.0 otherwise.
C30_Antisymmetric ==
    ret.op = "swap" =>
        IF ret.total >= MIN_MATCHES
        THEN Abs(ret.score + ret.swapped) <= 1
        ELSE ret.score = 0 /\ ret.swapped = 0

\* SpecMaps: one call of a feature on the logs of SpecRepeat, the log of more
\* rows than the LIMIT among them
SpecMaps == InitRepeat /\ [][NextFeat]_vars

\* the opponents fighter id has met in the log
OpponentsOf(id) == {OppOf(i, id) : i \in RowsOf(id)}

\* C26: the opponent map get_comp_score builds for a fighter covers all of the
\* fighter's matches in the log: every opponent the fighter has met is in the
\* map, however many matches the fighter has played.
C26_MapCoversAll ==
    ret.op = "get_comp_score" =>
        /\ DOMAIN ret.red_opps = OpponentsOf(ret.red)
        /\ DOMAIN ret.blue_opps = OpponentsOf(ret.blue)

---------------------------------------------------------------------------
(* training.py: the replay of the match log by the model fitter.  The       *)
(* tier ratings of the replay are floats: they are counted in 1/SCALE.      *)

WARMUP_MATCHES == 1000
MIN_MATCHES_FOR_STATS == 1

\* FighterTracker.__init__
FighterTracker ==
    [tier_elo |-> STARTING_ELO * SCALE, match_history |-> <<>>,
     current_streak |-> 0]

\* fighters[id] of a defaultdict(FighterTracker)
Tracker(fs, id) == IF id \in DOMAIN fs THEN fs[id] ELSE FighterTracker

\* 1 / (1 + 10 ** (d / 400)) for a rating difference d counted in 1/SCALE:
\* between two whole differences the value is interpolated
ExpectedWin(d) ==
    LET n == d \div SCALE
        f == d % SCALE
        lo == ExpectedScore(0, n)
        hi == ExpectedScore(0, n + 1)
    IN  lo + ((hi - lo) * f) \div SCALE

calculate_elo_change(winner_elo, loser_elo) ==
    K_FACTOR * (SCALE - ExpectedWin(loser_elo - winner_elo))

\* get_h2h_win_rate, with the minimum sample of the file that calls it
get_h2h_win_rate(fs, fighter_id, opponent_id, min_stats) ==
    LET history == Tracker(fs, fighter_id).match_history
        Vs(m) == m.opponent = opponent_id
        Won(m) == m.opponent = opponent_id /\ m.result = "win"
        total == Len(SelectSeq(history, Vs))
        wins == Len(SelectSeq(history, Won))
    IN  IF total < min_stats THEN HALF ELSE (wins * SCALE) \div total

\* {m["opponent"]: m["result"] for m in history}[opp_id]: the last entry wins
LastResult(history, opp_id) ==
    LET last == CHOOSE i \in DOMAIN history :
                    /\ history[i].opponent = opp_id
                    /\ \A j \in DOMAIN history :
                          j > i => history[j].opponent # opp_id
    IN  history[last].result

\* get_comp_win_rate: every entry of blue's history is looked up in red_opps
get_comp_win_rate(fs, red_id, blue_id, min_stats) ==
    LET red_hist == Tracker(fs, red_id).match_history
        blue_hist == Tracker(fs, blue_id).match_history
        Known(m) == \E i \in DOMAIN red_hist : red_hist[i].opponent = m.opponent
        Win(m) == /\ Known(m) /\ LastResult(red_hist, m.opponent) = "win"
                  /\ m.result = "loss"
        Loss(m) == /\ Known(m) /\ LastResult(red_hist, m.opponent) = "loss"
                   /\ m.result = "win"
        wins == Len(SelectSeq(blue_hist, Win))
        total == wins + Len(SelectSeq(blue_hist, Loss))
    IN  IF total < min_stats THEN HALF ELSE (wins * SCALE) \div total

\* the streak rule of the replay
replay_streak(streak, won) ==
    IF won THEN (IF streak > 0 THEN streak + 1 ELSE 1)
    ELSE (IF streak < 0 THEN streak - 1 ELSE -1)

\* replay_step taking the features of the row after the match was applied
replay_step_lookahead(fs, match, match_counter) ==
    LET r == match.fighter_red
        b == match.fighter_blue
        red == Tracker(fs, r)
        blue == Tracker(fs, b)
        target == IF match.winner = r THEN 1 ELSE 0
        change == IF target = 1
                  THEN calculate_elo_change(red.tier_elo, blue.tier_elo)
                  ELSE calculate_elo_change(blue.tier_elo, red.tier_elo)
        After(t, opp, won) ==
            [tier_elo |-> IF won THEN t.tier_elo + change
                          ELSE t.tier_elo - change,
             match_history |-> Append(t.match_history,
                 [opponent |-> opp,
                  result |-> IF won THEN "win" ELSE "loss"]),
             current_streak |-> replay_streak(t.current_streak, won)]
        after == (r :> After(red, b, target = 1))
                 @@ (b :> After(blue, r, target = 0)) @@ fs
        row == [elo |-> after[r].tier_elo - after[b].tier_elo,
                streak |-> after[r].current_streak - after[b].current_streak,
                h2h |-> get_h2h_win_rate(after, r, b, MIN_MATCHES_FOR_STATS)
                        - HALF,
                comp |-> get_comp_win_rate(after, r, b, MIN_MATCHES_FOR_STATS)
                         - HALF,
                win |-> target,
                kept |-> match_counter > WARMUP_MATCHES]
    IN  [row |-> row, fighters |-> after]

\* one turn of the loop of train_model over match number match_counter:
\* the feature row (kept for training after the warm-up only) and the
\* in-memory fighters after the match
replay_step(fs, match, match_counter) ==
    LET r == match.fighter_red
        b == match.fighter_blue
        red == Tracker(fs, r)
        blue == Tracker(fs, b)
        target == IF match.winner = r THEN 1 ELSE 0
        row == [elo |-> red.tier_elo - blue.tier_elo,
                streak |-> red.current_streak - blue.current_streak,
                h2h |-> get_h2h_win_rate(fs, r, b, MIN_MATCHES_FOR_STATS) - HALF,
                comp |-> get_comp_win_rate(fs, r, b, MIN_MATCHES_FOR_STATS) - HALF,
                win |-> target,
                kept |-> match_counter > WARMUP_MATCHES]
        change == IF target = 1
                  THEN calculate_elo_change(red.tier_elo, blue.tier_elo)
                  ELSE calculate_elo_change(blue.tier_elo, red.tier_elo)
        After(t, opp, won) ==
            [tier_elo |-> IF won THEN t.tier_elo + change
                          ELSE t.tier_elo - change,
             match_history |-> Append(t.match_history,
                 [opponent |-> opp,
                  result |-> IF won THEN "win" ELSE "loss"]),
             current_streak |-> replay_streak(t.current_streak, won)]
    IN  [row |-> row,
         fighters |-> (r :> After(red, b, target = 1))
                      @@ (b :> After(blue, r, target = 0)) @@ fs]

\* the loop of train_model from the in-memory fighters fs: the rows and the
\* fighters after each match, and the fighters at the end.  The matches are
\* taken in order, the first half and then the second from where the first
\* half left the fighters.
RECURSIVE replay_from(_, _, _)
replay_from(fs, matches, match_counter) ==
    IF matches = <<>> THEN [rows |-> <<>>, states |-> <<>>, fighters |-> fs]
    ELSE IF Len(matches) = 1
    THEN LET step == replay_step(fs, matches[1], match_counter)
         IN  [rows |-> <<step.row>>, states |-> <<step.fighters>>,
              fighters |-> step.fighters]
    ELSE LET half == Len(matches) \div 2
             first == replay_from(fs, SubSeq(matches, 1, half), match_counter)
             rest == replay_from(first.fighters,
                                 SubSeq(matches, half + 1, Len(matches)),
                                 match_counter + half)
         IN  [rows |-> first.rows \o rest.rows,
              states |-> first.states \o rest.states,
              fighters |-> rest.fighters]

\* fighters = defaultdict(FighterTracker): every run of train_model starts empty
replay(matches) == replay_from(<<>>, matches, 1)

\* C29: training and decision features agree: the head-to-head and the
\* common-opponent feature the fitter computes in replay (get_h2h_win_rate - 0.5,
\* get_comp_win_rate - 0.5) equal what get_h2h_score and get_comp_score return
\* on a log of the same matches, for pairs with 1 or 2 meetings and opponents
\* met several times too.
C29_FeaturesAgree ==
    /\ ret.op = "get_h2h_score" =>
          ret.score = get_h2h_win_rate(replay(log).fighters, ret.red, ret.blue,
                                       MIN_MATCHES_FOR_STATS) - HALF
    /\ ret.op = "get_comp_score" =>
          ret.score = get_comp_win_rate(replay(log).fighters, ret.red, ret.blue,
                                        MIN_MATCHES_FOR_STATS) - HALF

---------------------------------------------------------------------------
(* SpecReplay: matches settled into an empty store *)

InitReplay ==
    /\ fighter = <<>>
    /\ log = <<>>
    /\ applied = {}
    /\ weights = <<>>
    /\ now = StartHour
    /\ bot = BotStart
    /\ fighters = <<>>
    /\ ret = [op |-> "init"]

SpecReplay == InitReplay /\ [][Next]_vars

\* what counts as equal between a stored whole rating and a float of the replay
ReplayTolerance == SCALE \div 20

\* C13: after any sequence of settled matches, each fighter's stored tier
\* rating and current streak equal the values the replay of training.py
\* computes for that fighter from the same matches in log order.
C13_Reconstructable ==
    (\A i \in 1..Len(log) : log[i].id \in applied) =>
        LET mirror == replay(log).fighters
        IN  \A n \in DOMAIN fighter :
                /\ Abs(fighter[n].tier_elo * SCALE - Tracker(mirror, n).tier_elo)
                      <= ReplayTolerance
                /\ fighter[n].current_streak = Tracker(mirror, n).current_streak

\* the results of fighter n in the log, oldest first: TRUE for a win
ResultsOf(n) ==
    LET Fought(m) == m.fighter_red = n \/ m.fighter_blue = n
        rows == SelectSeq(log, Fought)
    IN  [i \in 1..Len(rows) |-> rows[i].winner = n]

\* the length of the run of identical results that ends the sequence
TrailingRun(res) ==
    CHOOSE k \in 1..Len(res) :
        /\ \A i \in (Len(res) - k + 1)..Len(res) : res[i] = res[Len(res)]
        /\ k = Len(res) \/ res[Len(res) - k] # res[Len(res)]

\* C21: after any sequence of settled matches, a fighter created with streak 0
\* has a non-zero current streak whose sign is that of its latest result and
\* whose magnitude is the length of the trailing run of identical results; the
\* replay of training.py keeps the same streak.
C21_StreakIsTrailingRun ==
    (\A i \in 1..Len(log) : log[i].id \in applied) =>
        \A n \in DOMAIN fighter :
            LET res == ResultsOf(n)
            IN  IF res = <<>> THEN fighter[n].current_streak = 0
                ELSE /\ fighter[n].current_streak # 0
                     /\ fighter[n].current_streak > 0 <=> res[Len(res)]
                     /\ Abs(fighter[n].current_streak) = TrailingRun(res)
                     /\ Tracker(replay(log).fighters, n).current_streak
                           = fighter[n].current_streak

\* a winning run and a losing run of two matches, all of them settled
C21_Witness ==
    /\ \A i \in 1..Len(log) : log[i].id \in applied
    /\ \E n, o \in DOMAIN fighter :
          fighter[n].current_streak >= 2 /\ fighter[o].current_streak <= -2

---------------------------------------------------------------------------
(* SpecStreak: get_safe_streak on one fighter, for every stored streak and  *)
(* every age of its last match up to a little over twice the threshold      *)

StreakStores ==
    {[Ryu |-> FighterRow("A", STARTING_ELO, STARTING_ELO, MaxStreak, s, last)] :
        s \in (0 - MaxStreak)..MaxStreak,
        last \in {NoDate}
                 \cup (StartHour - 2 * STALE_THRESHOLD_HOURS - 1)..StartHour}

InitStreak ==
    /\ fighter \in StreakStores
    /\ log = <<>>
    /\ applied = {}
    /\ weights = <<>>
    /\ now = StartHour
    /\ bot = BotStart
    /\ fighters = <<>>
    /\ ret = [op |-> "init"]

SafeStreak ==
    \E name \in DOMAIN fighter :
        /\ ret.op = "init"
        /\ ret' = [op |-> "get_safe_streak", name |-> name,
                   out |-> get_safe_streak(fighter[name])]
        /\ UNCHANGED <<fighter, log, applied, weights, now, bot, fighters>>

NextStreak == SafeStreak

SpecStreak == InitStreak /\ [][NextStreak]_vars

\* C19: get_safe_streak returns the stored streak when the last match is at
\* most 24 hours old, and 0 when the fighter is idle longer than that or has no
\* last-match timestamp, whatever the stored streak.
C19_StaleStreak ==
    ret.op = "get_safe_streak" =>
        LET f == fighter[ret.name]
            dated == f.last_match_date # NoDate
        IN  /\ (dated /\ now - f.last_match_date <= STALE_THRESHOLD_HOURS)
                  => ret.out = f.current_streak
            /\ (~dated \/ now - f.last_match_date > STALE_THRESHOLD_HOURS)
                  => ret.out = 0

\* C19 witness: a fighter idle for 48 hours with a stored streak, counted as 0.
C19_Witness ==
    /\ ret.op = "get_safe_streak"
    /\ fighter[ret.name].current_streak = MaxStreak
    /\ now - fighter[ret.name].last_match_date = 2 * STALE_THRESHOLD_HOURS
    /\ ret.out = 0

---------------------------------------------------------------------------
(* run.py: the loop of BotProcess.run over the messages of the chat.  One   *)
(* action is one message handled to the end, the except clauses included.   *)
(* The store is keyed by name: the id migration of sync_fighter_stats, for  *)
(* a name stored under another id, is outside the model.                    *)

RETRAIN_EVERY == 100

\* current_weights = new_weights, without the test `if new_weights`
retrained_always(current, new_weights) == new_weights

\* if new_weights: current_weights = new_weights
retrained(current, new_weights) ==
    IF DOMAIN new_weights # {} THEN new_weights ELSE current

\* fighter_info of the match API, the defaults of .get() applied
ApiInfo(name, tier, elo) ==
    [name |-> name, tier |-> tier, elo |-> elo, tier_elo |-> elo]

ImportedRow(info) == FighterRow(info.tier, info.elo, info.tier_elo, 0, 0, NoDate)

ensure_fighter_exists(store, info) ==
    IF info = NoInfo \/ info.name \in DOMAIN store THEN store
    ELSE [n \in DOMAIN store \cup {info.name} |->
            IF n = info.name THEN ImportedRow(info) ELSE store[n]]

sync_fighter_stats(store, info) ==
    IF info = NoInfo THEN store
    ELSE IF info.name \in DOMAIN store
    THEN [store EXCEPT ![info.name] =
            [@ EXCEPT !.elo = info.elo, !.tier_elo = info.tier_elo,
                      !.tier = info.tier]]
    ELSE ensure_fighter_exists(store, info)

\* Match(message): the match in progress, nothing known but the pairing
NewMatch(red, blue, tier, fmt) ==
    MatchIn(fmt, red, blue, tier, NoneInt, NoneInt, NoneInt, NoneInt, NoneName)

Capitalize(color) == IF color = "red" THEN "Red" ELSE "Blue"

\* a row of the history API: the match red vs blue just played, as the site
\* recorded it
ApiMatch(red, blue, w, bet_red) ==
    [id |-> 0 - 1, fighter_red |-> red, fighter_blue |-> blue, winner |-> w,
     match_format |-> MATCHMAKING, tier |-> "A", date |-> now,
     streak_red |-> 0, streak_blue |-> 0, bet_red |-> bet_red, bet_blue |-> 200]

\* match_data.get("bet_red") or 0
OrZero(v) == IF v = NoneInt THEN 0 ELSE v

\* one turn of the loop of backfill_matches
backfill_row(acc, md) ==
    IF \/ md.id \in acc.seen
       \/ \E i \in DOMAIN acc.log : acc.log[i].id = md.id
    THEN acc
    ELSE IF \/ md.fighter_red \notin DOMAIN acc.store
            \/ md.fighter_blue \notin DOMAIN acc.store
    THEN acc
    ELSE LET Ghost(g) == /\ g.fighter_red = md.fighter_red
                         /\ g.fighter_blue = md.fighter_blue
                         /\ g.date >= md.date - 1
             Kept(g) == ~Ghost(g)
             Bet(g) == Ghost(g) /\ g.my_bet_on # NoneName
             bets == SelectSeq(acc.log, Bet)
             mine == IF bets = <<>>
                     THEN [my_bet_on |-> NoneName, my_wager |-> NoneInt,
                           match_balance |-> NoneInt]
                     ELSE bets[Len(bets)]
             new_match == MatchRow(md.id, md.fighter_red, md.fighter_blue,
                              md.winner, md.match_format, md.tier,
                              OrZero(md.bet_red), OrZero(md.bet_blue),
                              md.streak_red, md.streak_blue, mine.my_bet_on,
                              mine.my_wager, mine.match_balance, md.date)
         IN  [acc EXCEPT !.log = Append(SelectSeq(acc.log, Kept), new_match),
                         !.seen = @ \cup {md.id},
                         !.added = @ + 1]

RECURSIVE backfill_matches(_, _)
backfill_matches(acc, history) ==
    IF history = <<>> THEN acc
    ELSE backfill_matches(backfill_row(acc, Head(history)), Tail(history))

---------------------------------------------------------------------------
(* SpecBot: a few messages handled by the loop *)

MaxEvents == 4

BotPairs == {<<"Ryu", "Ken">>}
WalletBalances == {0, 600000}
OpenBetFails == {"none", "info", "get_bet", "place_bet"}

\* get_current_match_info(): nothing, or both fighters as the API rates them
MatchInfos(red, blue) ==
    {NoInfo,
     [fighter_red_info |-> ApiInfo(red, "A", STARTING_ELO + EloSpread),
      fighter_blue_info |-> ApiInfo(blue, "A", STARTING_ELO)]}

\* get_fighter_history(): nothing, or the match just played, which the site
\* may hold without a winner or without the red pool
Histories(red, blue) ==
    {<<>>, <<ApiMatch(red, blue, red, 100)>>,
     <<ApiMatch(red, blue, NoneName, NoneInt)>>}

\* train_model(): None, or a fitted set.  It returns None below
\* WARMUP_MATCHES + 50 rows and when the fit fails; the rows of a running
\* bot's table are not enumerated, so every outcome is drawn.
FittedSets ==
    {[intercept |-> 100, tier_elo |-> 40, streak |-> 60, h2h |-> 10000,
      comp |-> 20000]}
TrainResults == {<<>>} \cup FittedSets

\* the loop before its first message, or after RETRAIN_EVERY - 1 matches
\* tracked and an exhibition; logged in to the site or not
InitBot ==
    /\ fighter = <<>>
    /\ log = <<>>
    /\ applied = {}
    /\ weights \in TrainResults
    /\ now = StartHour
    /\ bot \in {[BotStart EXCEPT !.logged_in = l, !.matches_tracked = t] :
                  l \in BOOLEAN, t \in {0, RETRAIN_EVERY - 1}}
    /\ fighters = <<>>
    /\ ret = [op |-> "init"]

\* OpenBetMessage of a format other than exhibition; `fail` is the call of the
\* try block that raises (place_bet and get_wallet_balance are called only
\* when logged in, and nothing after a call that raises is run)
OpenBet ==
    \E p \in BotPairs :
    \E fail \in IF bot.logged_in THEN OpenBetFails
                ELSE OpenBetFails \ {"place_bet"} :
    \E info \in IF fail = "info" THEN {NoInfo} ELSE MatchInfos(p[1], p[2]) :
    \E real_balance \in IF fail # "info" /\ bot.logged_in THEN WalletBalances
                        ELSE {0} :
    LET balance == IF real_balance > 0
                   THEN real_balance ELSE bot.current_balance
        synced == IF fail = "info" \/ info = NoInfo THEN fighter
                  ELSE sync_fighter_stats(
                           sync_fighter_stats(fighter, info.fighter_red_info),
                           info.fighter_blue_info)
    IN
        /\ bot.events < MaxEvents
        /\ fighter' = synced
        /\ UNCHANGED <<log, applied, weights, now, fighters>>
        /\ \E red_opps \in OppMaps(p[1]), blue_opps \in OppMaps(p[2]) :
            LET out == get_bet(synced, p[1], p[2], balance, red_opps,
                               blue_opps)
                decided == fail \notin {"info", "get_bet"}
                bet_fails == fail = "place_bet"
                posted == decided /\ bot.logged_in /\ ~bet_fails
            IN  /\ bot' = [bot EXCEPT
                      !.events = @ + 1,
                      !.current_match = NewMatch(p[1], p[2], "A", MATCHMAKING),
                      !.current_balance = balance,
                      !.saved_match_info =
                          IF decided /\ ~bet_fails THEN info ELSE NoInfo,
                      !.current_bet_color =
                          IF decided THEN Capitalize(out.color) ELSE @,
                      !.current_wager = IF decided THEN out.wager ELSE @,
                      !.current_balance_snapshot =
                          IF decided THEN balance ELSE @,
                      !.own_bet = decided,
                      !.placed =
                          IF posted
                          THEN Append(@, [wager |-> out.wager,
                                          color |-> out.color,
                                          event |-> bot.events + 1])
                          ELSE @]
                /\ ret' = [op |-> "open_bet", red |-> p[1], blue |-> p[2],
                           failed |-> (~decided \/ bet_fails),
                           decided |-> decided, posted |-> posted,
                           evaluated |-> (decided /\ out.evaluated),
                           z |-> IF decided THEN out.z ELSE 0,
                           red_opps |-> red_opps, blue_opps |-> blue_opps]

\* OpenBetExhibitionMessage, or an OpenBetMessage of the exhibition format
OpenBetExhibition ==
    /\ bot.events < MaxEvents
    /\ bot' = [bot EXCEPT !.events = @ + 1, !.current_match = NoMatch,
                          !.saved_match_info = NoInfo,
                          !.current_bet_color = NoneName,
                          !.current_wager = NoneInt, !.own_bet = FALSE]
    /\ ret' = [op |-> "open_bet_exhibition"]
    /\ UNCHANGED <<fighter, log, applied, weights, now, fighters>>

\* LockedBetMessage: ok is what current_match.update_locked returns
LockedBet ==
    /\ bot.events < MaxEvents
    /\ bot.current_match # NoMatch
    /\ \E ok \in BOOLEAN :
       \E history \in IF ok /\ bot.saved_match_info # NoInfo
                      THEN Histories(bot.current_match.fighter_red_name,
                                     bot.current_match.fighter_blue_name)
                      ELSE {<<>>} :
        /\ LET info == bot.saved_match_info
               fill == ok /\ info # NoInfo
               ensured == IF fill
                          THEN ensure_fighter_exists(
                                   ensure_fighter_exists(fighter,
                                       info.fighter_red_info),
                                   info.fighter_blue_info)
                          ELSE fighter
               start == [store |-> ensured, log |-> log, seen |-> {},
                         added |-> 0]
               total == IF fill
                        THEN backfill_matches(backfill_matches(start, history),
                                              history)
                        ELSE start
           IN  /\ fighter' = ensured
               /\ log' = total.log
               /\ bot' = IF ok
                         THEN [bot EXCEPT
                                  !.events = @ + 1,
                                  !.current_match =
                                      [@ EXCEPT !.bet_red = 100,
                                                !.bet_blue = 200,
                                                !.streak_red = 1,
                                                !.streak_blue = 0],
                                  !.last_pool_red = 100,
                                  !.last_pool_blue = 200]
                         ELSE [bot EXCEPT !.events = @ + 1]
               /\ ret' = [op |-> "locked_bet", ok |-> ok,
                          added |-> total.added]
        /\ UNCHANGED <<applied, weights, now, fighters>>

\* WinMessage: ok is what current_match.update_winner returns, fail the store
\* operation of record_match that fails, new_weights what train_model returns
\* if it is called
WinBet ==
    /\ bot.events < MaxEvents
    /\ bot.current_match # NoMatch
    /\ now' = now
    /\ fighters' = fighters
    /\ \E ok \in BOOLEAN :
        IF ~ok
        THEN /\ bot' = [bot EXCEPT !.events = @ + 1]
             /\ ret' = [op |-> "win", ok |-> FALSE, raised |-> FALSE,
                        attempted |-> FALSE, new_weights |-> <<>>]
             /\ UNCHANGED <<fighter, log, applied, weights>>
        ELSE \E red_wins \in BOOLEAN, fail \in FailPoints :
             LET cm == bot.current_match
                 match == [cm EXCEPT !.winner =
                              IF red_wins THEN cm.fighter_red_name
                              ELSE cm.fighter_blue_name]
                 out == record_match(match, bot.current_bet_color,
                            bot.current_wager, bot.current_balance_snapshot,
                            fail)
                 tracked == bot.matches_tracked + 1
                 attempted == ~out.raised /\ tracked >= RETRAIN_EVERY
             IN  \E new_weights \in IF attempted THEN TrainResults ELSE {<<>>} :
                 /\ fighter' = out.fighter
                 /\ log' = out.log
                 /\ applied' = out.applied
                 /\ weights' = IF attempted
                               THEN retrained(weights, new_weights)
                               ELSE weights
                 /\ bot' = IF out.raised
                           THEN [bot EXCEPT !.events = @ + 1,
                                            !.current_match = match]
                           ELSE [bot EXCEPT
                                   !.events = @ + 1,
                                   !.current_match = match,
                                   !.current_bet_color = NoneName,
                                   !.current_wager = NoneInt,
                                   !.own_bet = FALSE,
                                   !.matches_tracked =
                                       IF attempted THEN 0 ELSE tracked,
                                   !.updates =
                                       IF attempted /\ DOMAIN new_weights # {}
                                       THEN @ + 1 ELSE @]
                 /\ ret' = [op |-> "win", ok |-> TRUE, raised |-> out.raised,
                            attempted |-> attempted,
                            new_weights |-> new_weights]

NextBot == OpenBet \/ OpenBetExhibition \/ LockedBet \/ WinBet

SpecBot == InitBot /\ [][NextBot]_vars

\* z of the decision just taken, computed afresh from the coefficient set W and
\* the features of the stored rows
DecisionScore(W) ==
    W.intercept
    + W.tier_elo * (fighter[ret.red].tier_elo - fighter[ret.blue].tier_elo)
    + W.streak * (get_safe_streak(fighter[ret.red])
                  - get_safe_streak(fighter[ret.blue]))
    + TruncMulDiv(W.h2h, get_h2h_score(ret.red, ret.blue), SCALE)
    + TruncMulDiv(W.comp, comp_from_maps(ret.red_opps, ret.blue_opps), SCALE)

\* C14: when the decision of a new-match event fails (the match lookup, the
\* fighter sync, get_bet or the bet placement raises), the bot goes on to the
\* later events and the stake in force for that match is the minimal one, 1.
C14_FallbackStake ==
    (ret.op = "open_bet" /\ ret.failed) =>
        /\ bot.current_wager = 1
        /\ ENABLED NextBot \/ bot.events = MaxEvents

\* C15: a retrain attempt that yields None leaves the coefficient set in use
\* as it was (the defaults if none was ever fitted), no decision changes the
\* set, and every decision scores with exactly the set in use.
C15_KeepsCoefficients ==
    [][/\ (ret'.op = "win" /\ ret'.attempted /\ DOMAIN ret'.new_weights = {})
            => EngineWeights(weights') = EngineWeights(weights)
       /\ ret'.op \in {"open_bet", "open_bet_exhibition", "locked_bet"}
            => weights' = weights
       /\ (ret'.op = "open_bet" /\ ret'.evaluated)
            => ret'.z = DecisionScore(EngineWeights(weights))']_vars

\* a fitted set is in use after an attempt of the loop that yielded None
C15_Witness ==
    /\ ret.op = "win"
    /\ ret.attempted
    /\ DOMAIN ret.new_weights = {}
    /\ DOMAIN weights # {}

\* C16: the intercept and the four weights a single get_bet scores with all come
\* from one coefficient set, the defaults or a fitted set, never a mix of two.
C16_OneCoefficientSet ==
    (ret.op = "open_bet" /\ ret.evaluated) =>
        \E W \in {DEFAULT_WEIGHTS} \cup FittedSets : ret.z = DecisionScore(W)

\* a decision scored after the loop replaced the coefficient set
C16_Witness ==
    /\ ret.op = "open_bet"
    /\ ret.evaluated
    /\ bot.updates > 0
    /\ fighter[ret.red].tier_elo # fighter[ret.blue].tier_elo

\* C27: after the start of the process, train_model is invoked exactly when the
\* count of matches recorded since the previous attempt reaches 100, and the
\* count restarts from 0 after each attempt, whether or not it gave
\* coefficients.
C27_RetrainEveryHundred ==
    [][ret'.op = "win" =>
          LET recorded == Len(log') > Len(log)
              counted == bot.matches_tracked + (IF recorded THEN 1 ELSE 0)
          IN  /\ ret'.attempted <=> (recorded /\ counted = RETRAIN_EVERY)
              /\ bot'.matches_tracked = IF ret'.attempted THEN 0 ELSE counted
       ]_vars

\* C28: in every sequence of match events, the bet side and the stake stored
\* with a recorded match are the ones decided for that match, or empty if no
\* decision was made for it; a bet decided for an earlier match is never
\* recorded with a later one.
C28_OwnBetRecorded ==
    [][(ret'.op = "win" /\ Len(log') > Len(log)) =>
          LET row == log'[Len(log')]
          IN  IF bot.own_bet
              THEN /\ row.my_bet_on = bot.current_bet_color
                   /\ row.my_wager = bot.current_wager
              ELSE /\ row.my_bet_on = NoneName
                   /\ row.my_wager = NoneInt]_vars

\* C18: every match of the log, appended by record_match or inserted by
\* backfill_matches, has its red or its blue participant as winner and pool
\* totals that are not negative.
C18_LogWellFormed ==
    \A i \in DOMAIN log :
        /\ log[i].winner \in {log[i].fighter_red, log[i].fighter_blue}
        /\ log[i].bet_red >= 0
        /\ log[i].bet_blue >= 0

---------------------------------------------------------------------------
(* train_model.py: the stand-alone fitter.  Its fighters dictionary is made *)
(* once, when the module is loaded, and main() replays into it.             *)

SCRIPT_MIN_MATCHES_FOR_STATS == 3

\* FighterTracker.__init__ of train_model.py, of its fields those main() uses
ScriptTracker == [tier_elo |-> STARTING_ELO * SCALE, match_history |-> <<>>]

\* one turn of the loop of main(): the feature row and the module's fighters
\* after the match
main_step(fs, match) ==
    LET r_id == match.fighter_red
        b_id == match.fighter_blue
        red == IF r_id \in DOMAIN fs THEN fs[r_id] ELSE ScriptTracker
        blue == IF b_id \in DOMAIN fs THEN fs[b_id] ELSE ScriptTracker
        red_won == IF match.winner = r_id THEN 1 ELSE 0
        row == [tier_elo_diff |-> red.tier_elo - blue.tier_elo,
                h2h_feature |-> get_h2h_win_rate(fs, r_id, b_id,
                                    SCRIPT_MIN_MATCHES_FOR_STATS) - HALF,
                comp_feature |-> get_comp_win_rate(fs, r_id, b_id,
                                     SCRIPT_MIN_MATCHES_FOR_STATS) - HALF,
                red_won |-> red_won]
        change == IF red_won = 1
                  THEN calculate_elo_change(red.tier_elo, blue.tier_elo)
                  ELSE calculate_elo_change(blue.tier_elo, red.tier_elo)
        After(t, opp, won) ==
            [t EXCEPT !.tier_elo = IF won THEN @ + change ELSE @ - change,
                      !.match_history =
                          Append(@, [opponent |-> opp,
                                     result |-> IF won THEN "win" ELSE "loss"])]
    IN  [row |-> row,
         fighters |-> [id \in DOMAIN fs \cup {r_id, b_id} |->
                         IF id = r_id THEN After(red, b_id, red_won = 1)
                         ELSE IF id = b_id THEN After(blue, r_id, red_won = 0)
                         ELSE fs[id]]]

\* the loop of main() from the module's fighters fs: the rows, the tier ratings
\* after each match, and the fighters at the end
RECURSIVE main_from(_, _)
main_from(fs, matches) ==
    IF matches = <<>> THEN [rows |-> <<>>, states |-> <<>>, fighters |-> fs]
    ELSE LET step == main_step(fs, Head(matches))
             rest == main_from(step.fighters, Tail(matches))
         IN  [rows |-> <<step.row>> \o rest.rows,
              states |-> <<step.fighters>> \o rest.states,
              fighters |-> rest.fighters]

---------------------------------------------------------------------------
(* SpecTrain: both fitters run, more than once, in one process over a fixed *)
(* match log                                                                *)

MaxRuns == 2

TrainPairs == {<<"Ryu", "Ken">>, <<"Ken", "Ryu">>, <<"Ryu", "Zed">>}

\* logs of up to MaxMatches matches, ids and dates in the order of settlement
TrainLogs ==
    UNION {{[i \in 1..n |-> Row(i, c[i][1][1], c[i][1][2], c[i][1][c[i][2]])] :
              c \in [1..n -> TrainPairs \X {1, 2}]} : n \in 0..MaxMatches}

\* the process after train_model.py was loaded: its fighters are empty
InitTrain ==
    /\ fighter = <<>>
    /\ log \in TrainLogs
    /\ applied = {}
    /\ weights = <<>>
    /\ now = StartHour
    /\ bot = BotStart
    /\ fighters = <<>>
    /\ ret = [op |-> "replay", main |-> <<>>, train_model |-> <<>>]

\* the per-match ratings and streaks of a run of train_model, the history
\* lists left out
Ratings(states) ==
    [i \in DOMAIN states |->
        [id \in DOMAIN states[i] |->
            [tier_elo |-> states[i][id].tier_elo,
             current_streak |-> states[i][id].current_streak]]]

\* the per-match ratings of a run of main(), which keeps no streak
TierRatings(states) ==
    [i \in DOMAIN states |->
        [id \in DOMAIN states[i] |-> states[i][id].tier_elo]]

\* one call of main() of train_model.py
Main ==
    /\ Len(ret.main) < MaxRuns
    /\ LET run == main_from(fighters, log)
       IN  /\ fighters' = run.fighters
           /\ ret' = [ret EXCEPT !.main =
                         Append(@, [rows |-> run.rows,
                                    ratings |-> TierRatings(run.states)])]
    /\ UNCHANGED <<fighter, log, applied, weights, now, bot>>

\* the replay loop of one call of train_model() of training.py (the call
\* returns before the loop when the table has fewer than WARMUP_MATCHES + 50
\* rows); its fighters are a local of the call
TrainModel ==
    /\ Len(ret.train_model) < MaxRuns
    /\ LET run == replay(log)
       IN  ret' = [ret EXCEPT !.train_model =
                      Append(@, [rows |-> run.rows,
                                 ratings |-> Ratings(run.states)])]
    /\ UNCHANGED <<fighter, log, applied, weights, now, bot, fighters>>

NextTrain == Main \/ TrainModel

SpecTrain == InitTrain /\ [][NextTrain]_vars

\* the features of a training row, its label left out
Features(row) ==
    [elo |-> row.elo, streak |-> row.streak, h2h |-> row.h2h,
     comp |-> row.comp]

\* the logs that differ from the log at most in the outcomes of match N and of
\* the matches after it
Reoutcomes(N) ==
    {l \in TrainLogs :
        /\ Len(l) = Len(log)
        /\ \A i \in DOMAIN log :
              /\ l[i].fighter_red = log[i].fighter_red
              /\ l[i].fighter_blue = log[i].fighter_blue
              /\ i < N => l[i].winner = log[i].winner}

C17_ReplayDeterministic ==
    ret.op = "replay" =>
        /\ \A i, j \in DOMAIN ret.main : ret.main[i] = ret.main[j]
        /\ \A i, j \in DOMAIN ret.train_model :
              ret.train_model[i] = ret.train_model[j]

---------------------------------------------------------------------------
(* SpecFit: train_model of training.py on match tables just around the      *)
(* size it asks for                                                         *)

TRAIN_MARGIN == 50
MaxExtra == 2

\* how many pairs take turns in the table, and who wins: red always, blue
\* always, red on odd ids, red on every third id
FitPeriods == {350, 525, WARMUP_MATCHES + TRAIN_MARGIN}
FitWinners == {"red", "blue", "odd", "third"}

FitRow(i, period, rule) ==
    LET r == 2 * ((i - 1) % period) + 1
        b == r + 1
        red_wins == \/ rule = "red"
                    \/ rule = "odd" /\ i % 2 = 1
                    \/ rule = "third" /\ i % 3 = 0
    IN  Row(i, r, b, IF red_wins THEN r ELSE b)

\* tables of one row less than train_model asks for, up to MaxExtra rows more
FitLogs ==
    {[i \in 1..n |-> FitRow(i, period, rule)] :
        n \in (WARMUP_MATCHES + TRAIN_MARGIN - 1)
                ..(WARMUP_MATCHES + TRAIN_MARGIN + MaxExtra),
        period \in FitPeriods, rule \in FitWinners}

InitFit ==
    /\ fighter = <<>>
    /\ log \in FitLogs
    /\ applied = {}
    /\ weights = <<>>
    /\ now = StartHour
    /\ bot = BotStart
    /\ fighters = <<>>
    /\ ret = [op |-> "init"]

\* the rows train_model appends to training_data
training_data(matches) ==
    LET Kept(row) == row.kept
    IN  SelectSeq(replay(matches).rows, Kept)

\* one call of train_model(): count is SELECT count(*) FROM match; fit_fails is
\* an exception of the fit (or of the database), which makes the call return
\* None
Fit ==
    \E fit_fails \in BOOLEAN :
        /\ ret.op = "init"
        /\ LET count == Len(log)
               enough == count >= WARMUP_MATCHES + TRAIN_MARGIN
               data == IF enough THEN training_data(log) ELSE <<>>
           IN  ret' = [op |-> "train_model", count |-> count,
                       replayed |-> enough,
                       rows |-> Len(data),
                       first |-> IF data = <<>> THEN <<>> ELSE <<data[1]>>,
                       none |-> (~enough \/ fit_fails)]
        /\ UNCHANGED <<fighter, log, applied, weights, now, bot, fighters>>

SpecFit == InitFit /\ [][Fit]_vars

\* C23: each replayed match contributes one training row: for a log of n
\* matches that passes the warm-up check, the training set has exactly n rows,
\* the first of them holding the features before the first match.
C23_OneRowPerMatch ==
    (ret.op = "train_model" /\ ret.replayed) =>
        /\ ret.rows = ret.count
        /\ ret.first = <<replay(log).rows[1]>>

---------------------------------------------------------------------------
(* SpecEligible: the features and the fitter on match tables that hold rows *)
(* record_match would not have stored: backfill_matches copies the format   *)
(* and the winner of a history row as the API sends them.                   *)

MaxSettled == 2

\* a history row of the exhibition format, and one without a winner
Exhibition(r, b, w) ==
    MatchRow(0, r, b, w, EXHIBITION, "A", 100, 200, 0, 0, NoneName, NoneInt, NoneInt, 0)
NoWinner(r, b) ==
    MatchRow(0, r, b, NoneInt, MATCHMAKING, "A", 100, 200, 0, 0, NoneName, NoneInt, NoneInt, 0)

BackfilledRows ==
    {Exhibition(1, 2, 1), Exhibition(2, 1, 1), NoWinner(1, 2),
     Exhibition(1, Opp(3), 1), Exhibition(Opp(3), 2, Opp(3)),
     NoWinner(Opp(3), 2)}

\* up to MaxSettled settled meetings of 1 and 2, or settled matches against
\* as many opponents, and then one or two rows of the history API
EligibleLogs ==
    {Numbered(l \o <<x>>) :
        l \in MeetingLogs(MaxSettled) \cup OpponentLogs(MaxSettled),
        x \in BackfilledRows}
    \cup {Numbered(l \o <<x, y>>) :
            l \in MeetingLogs(MaxSettled), x \in BackfilledRows,
            y \in BackfilledRows}

InitEligible ==
    /\ fighter = <<>>
    /\ log \in EligibleLogs
    /\ applied = {}
    /\ weights = <<>>
    /\ now = StartHour
    /\ bot = BotStart
    /\ fighters = <<>>
    /\ ret = [op |-> "init"]

\* train_model: SELECT count(*) FROM match, and the matches its loop walks
\* over (SELECT ... FROM match ORDER BY date ASC, id ASC)
WarmupCount ==
    /\ ret.op = "init"
    /\ ret' = [op |-> "train_model", count |-> Len(log),
               walked |-> Len(replay(log).rows)]
    /\ UNCHANGED <<fighter, log, applied, weights, now, bot, fighters>>

NextEligible == H2HScore \/ CompScore \/ WarmupCount

SpecEligible == InitEligible /\ [][NextEligible]_vars

\* a match eligible for statistics
Eligible(m) ==
    /\ m.match_format \in ACCEPTED_MATCH_FORMATS
    /\ m.winner \in {m.fighter_red, m.fighter_blue}
    /\ m.bet_red # NoneInt /\ m.bet_blue # NoneInt

\* C25: a match of an ineligible format, or lacking a winner or a pool total,
\* that is in the store never contributes to the head-to-head meeting count,
\* to the common-opponent maps, or to the fitter's replay and warm-up count.
C25_OnlyEligible ==
    /\ ret.op = "get_h2h_score" =>
          ret.score = h2h_from_rows(
                          SelectSeq(H2HRows(ret.red, ret.blue), Eligible),
                          ret.red)
    /\ ret.op = "get_comp_score" =>
          /\ \A o \in DOMAIN ret.red_opps :
                \E i \in RowsOf(ret.red) :
                    Eligible(log[i]) /\ OppOf(i, ret.red) = o
          /\ \A o \in DOMAIN ret.blue_opps :
                \E i \in RowsOf(ret.blue) :
                    Eligible(log[i]) /\ OppOf(i, ret.blue) = o
    /\ ret.op = "train_model" =>
          /\ ret.count = Len(SelectSeq(log, Eligible))
          /\ ret.walked = Len(SelectSeq(log, Eligible))

====
